---- MODULE Spec2Model ----
(***************************************************************************)
(* A model of the zip-builder crate: the streaming CRC-32 (src/crc32.rs),  *)
(* the epoch-to-calendar and DOS-time conversion (src/time.rs) and the     *)
(* archive writer ZipArchive (src/lib.rs).                                 *)
(*                                                                         *)
(* Machine integers keep their width.  TLC's integers are 32-bit signed,   *)
(* so a u32 is the pair <<lo, hi>> of its 16-bit halves and a usize/u64 is *)
(* the tuple of its four 16-bit limbs, least significant first.  A u16 or  *)
(* u8 is a plain integer.                                                  *)
(***************************************************************************)
EXTENDS Integers, Sequences, FiniteSets, TLC

\* ------------------------------------------------------------------------
\* Bounds of the model
\* ------------------------------------------------------------------------

\* The number of entries a behaviour of the writer adds at most.
MaxEntries == 2

\* The number of bytes a behaviour of the hasher is fed at most, and the
\* length of one chunk at most.
MaxFed == 4
MaxChunk == 2

\* The last day, counted from 1970-01-01, whose clock readings are
\* converted: 47846 is 2100-12-31.
MaxDay == 47846

\* ------------------------------------------------------------------------
\* Fixed-width arithmetic
\* ------------------------------------------------------------------------

\* One 16-bit limb holds the values 0 .. Limb - 1.
Limb == 65536

\* The limbs of a u32 and of a usize (a 64-bit target).
U32Limbs == 2
UsizeLimbs == 4

\* The k-limb representation of a small natural n (n < 2^31).
RECURSIVE FromInt(_, _)
FromInt(n, k) ==
    IF k = 0 THEN <<>> ELSE <<n % Limb>> \o FromInt(n \div Limb, k - 1)

\* A limb tuple all of whose limbs from index i on are zero.
ZeroFrom(x, i) == \A j \in i..Len(x) : x[j] = 0

\* a + b on two limb tuples of the same length: the sum wrapped to that
\* length, and whether it overflowed.
RECURSIVE AddLimbs(_, _, _, _)
AddLimbs(a, b, i, carry) ==
    IF i > Len(a) THEN [sum |-> <<>>, over |-> carry = 1]
    ELSE LET s == a[i] + b[i] + carry
             r == AddLimbs(a, b, i + 1, s \div Limb)
         IN [sum |-> <<s % Limb>> \o r.sum, over |-> r.over]

Add(a, b) == AddLimbs(a, b, 1, 0)

\* a - b on two limb tuples of the same length: the difference wrapped to
\* that length, and whether it underflowed.
RECURSIVE SubLimbs(_, _, _, _)
SubLimbs(a, b, i, borrow) ==
    IF i > Len(a) THEN [diff |-> <<>>, under |-> borrow = 1]
    ELSE LET d == a[i] - b[i] - borrow
             r == SubLimbs(a, b, i + 1, IF d < 0 THEN 1 ELSE 0)
         IN [diff |-> <<(d + Limb) % Limb>> \o r.diff, under |-> r.under]

Sub(a, b) == SubLimbs(a, b, 1, 0)

\* `x as u32` on a usize: the low 32 bits.
AsU32(x) == SubSeq(x, 1, U32Limbs)

\* `x as u16` on a usize: the low 16 bits.
AsU16(x) == x[1]

\* A u32 widened to a usize.
Widen(x) == x \o [i \in 1..(UsizeLimbs - Len(x)) |-> 0]

\* u16::try_from(x) and u32::try_from(x) on a usize succeed when the value
\* fits the narrower type.
FitsU16(x) == ZeroFrom(x, 2)
FitsU32(x) == ZeroFrom(x, U32Limbs + 1)

\* v.to_le_bytes() of a u16 and of a u32.
LeBytes16(v) == <<v % 256, v \div 256>>
LeBytes32(x) == LeBytes16(x[1]) \o LeBytes16(x[2])

\* The u32 with high half hi and low half lo.
U32(hi, lo) == <<lo, hi>>

\* x / d and x % d of a limb tuple by a small divisor (d < 2^15), by short
\* division from the most significant limb down.
RECURSIVE DivLimbs(_, _, _, _)
DivLimbs(x, d, i, rem) ==
    IF i = 0 THEN [quot |-> <<>>, rem |-> rem]
    ELSE LET cur == rem * Limb + x[i]
             r == DivLimbs(x, d, i - 1, cur % d)
         IN [quot |-> r.quot \o <<cur \div d>>, rem |-> r.rem]

DivMod(x, d) == DivLimbs(x, d, Len(x), 0)

\* x * k of a limb tuple by a small factor (k < 2^15), wrapped to the
\* length of x.
RECURSIVE MulLimbs(_, _, _, _)
MulLimbs(x, k, i, carry) ==
    IF i > Len(x) THEN <<>>
    ELSE <<(x[i] * k + carry) % Limb>>
             \o MulLimbs(x, k, i + 1, (x[i] * k + carry) \div Limb)

Mul(x, k) == MulLimbs(x, k, 1, 0)

\* Bitwise operations on naturals below 2^16, bit by bit.
RECURSIVE Xor16(_, _)
Xor16(a, b) ==
    IF a = 0 THEN b
    ELSE IF b = 0 THEN a
    ELSE (((a % 2) + (b % 2)) % 2) + 2 * Xor16(a \div 2, b \div 2)

RECURSIVE Or16(_, _)
Or16(a, b) ==
    IF a = 0 THEN b
    ELSE IF b = 0 THEN a
    ELSE (IF (a % 2) + (b % 2) > 0 THEN 1 ELSE 0) + 2 * Or16(a \div 2, b \div 2)

\* a ^ b, a | b, x >> 1 and x >> 8 on u32 values.
Xor32(a, b) == <<Xor16(a[1], b[1]), Xor16(a[2], b[2])>>
Or32(a, b) == <<Or16(a[1], b[1]), Or16(a[2], b[2])>>
Shr32(x, k) ==
    LET p == 2 ^ k
    IN <<(x[1] \div p) + (x[2] % p) * (Limb \div p), x[2] \div p>>

\* x << 1 on a u32, the bit shifted past bit 31 dropped; x << k by k
\* doublings.
Shl1(x) == <<(2 * x[1]) % Limb, (2 * x[2] + (2 * x[1]) \div Limb) % Limb>>
RECURSIVE Shl32(_, _)
Shl32(x, k) == IF k = 0 THEN x ELSE Shl32(Shl1(x), k - 1)

\* ------------------------------------------------------------------------
\* src/crc32.rs
\* ------------------------------------------------------------------------

\* 0xedb88320, the reflected generator polynomial.
CrcPolynomial == U32(60856, 33568)

\* One round of the inner loop of make_crc_table.
CrcRound(c) ==
    IF c[1] % 2 = 1 THEN Xor32(CrcPolynomial, Shr32(c, 1)) ELSE Shr32(c, 1)

\* const fn make_crc_table: eight rounds on each n in 0..255.
make_crc_table ==
    [n \in 0..255 |->
        CrcRound(CrcRound(CrcRound(CrcRound(
        CrcRound(CrcRound(CrcRound(CrcRound(U32(0, n)))))))))]

CRC_TABLE == make_crc_table

\* CRC32::default(): the accumulator 0xFFFFFFFF.
CRC32_default == U32(65535, 65535)

\* The closure folded by CRC32::write: one byte into the accumulator.
CrcStep(crc, byte) ==
    Xor32(CRC_TABLE[Xor16(crc[1] % 256, byte)], Shr32(crc, 8))

\* bytes.iter().fold(acc, step) from byte i on.
RECURSIVE CrcFold(_, _, _)
CrcFold(crc, bytes, i) ==
    IF i > Len(bytes) THEN crc ELSE CrcFold(CrcStep(crc, bytes[i]), bytes, i + 1)

\* finish as it would be without the complement.
finish_raw(crc) == crc

\* write as it would be if each call began from a fresh accumulator.
write_fresh(crc, bytes) == CrcFold(CRC32_default, bytes, 1)

\* CRC32::write(&mut self, bytes): the new accumulator.
write(crc, bytes) == CrcFold(crc, bytes, 1)

\* CRC32::finish(&self): !self.0; the accumulator is not changed.
finish(crc) == <<Limb - 1 - crc[1], Limb - 1 - crc[2]>>

\* ------------------------------------------------------------------------
\* src/time.rs
\* ------------------------------------------------------------------------

\* The value of a limb tuple as an integer; defined for values below 2^31.
RECURSIVE ToInt(_, _)
ToInt(x, i) == IF i > Len(x) THEN 0 ELSE x[i] + Limb * ToInt(x, i + 1)

\* The loop of year_from_days: for each (days_in_a_year, years) pair in
\* order, year += days / days_in_a_year * years; days %= days_in_a_year.
RECURSIVE YearLoop(_, _, _, _)
YearLoop(pairs, i, year, days) ==
    IF i > Len(pairs) THEN [year |-> year, days |-> days]
    ELSE YearLoop(pairs, i + 1,
                  year + (days \div pairs[i][1]) * pairs[i][2],
                  days % pairs[i][1])

\* The branch of year_from_days taken when days > 10957.
YearSince2000(days) ==
    LET r == YearLoop(<< <<400 * 365 + 97, 400>>, <<100 * 365 + 24, 100>>,
                         <<4 * 365 + 1, 4>>, <<365, 1>> >>,
                      1, 0, days - 10957)
    IN [year |-> (r.year + 2000) % Limb, days |-> r.days % Limb]

\* The branch of year_from_days taken otherwise.
YearSince1960(days) ==
    LET r == YearLoop(<< <<4 * 365 + 1, 4>>, <<365, 1>> >>,
                      1, 0, days + 3653)
    IN [year |-> (r.year + 1960) % Limb, days |-> (r.days + 1) % Limb]

\* fn year_from_days(days: u64) -> (u16, u16), on a day count below 2^31.
year_from_days(days) ==
    IF days > 10957 THEN YearSince2000(days) ELSE YearSince1960(days)

\* const fn is_leap_year(year: u16) -> bool.
is_leap_year(year) ==
    (year % 4 = 0) /\ ((year % 100 # 0) \/ (year % 400 = 0))

DAYS_IN_YEAR == <<31, 28, 31, 30, 31, 30, 31, 31, 30, 31, 30, 31>>
DAYS_IN_YEAR_OF_LEAP_YEAR == <<31, 29, 31, 30, 31, 30, 31, 31, 30, 31, 30, 31>>

\* The choice of table as the tables' names would have it.
MonthTable_as_named(is_leap) ==
    IF is_leap THEN DAYS_IN_YEAR_OF_LEAP_YEAR ELSE DAYS_IN_YEAR

\* The table month_from_days walks: DAYS_IN_YEAR when is_leap holds, and
\* DAYS_IN_YEAR_OF_LEAP_YEAR otherwise, as the source selects them.
MonthTable(is_leap) ==
    IF is_leap THEN DAYS_IN_YEAR ELSE DAYS_IN_YEAR_OF_LEAP_YEAR

\* The find_map of month_from_days from table index num on: the first
\* month whose length exceeds the days left; found = FALSE is the None that
\* the unwrap() panics on.
RECURSIVE MonthFind(_, _, _)
MonthFind(table, num, days) ==
    IF num > Len(table) THEN [found |-> FALSE, month |-> 0, day |-> 0]
    ELSE IF table[num] > days
         THEN [found |-> TRUE, month |-> num % 256, day |-> days % 256]
         ELSE MonthFind(table, num + 1, days - table[num])

\* fn month_from_days(days: u16, is_leap: bool) -> (u8, u8).
month_from_days(days, is_leap) == MonthFind(MonthTable(is_leap), 1, days)

\* impl From<&EpochTime> for DateTime, on the u64 seconds et; ok = FALSE
\* when month_from_days panics.
DateTime_from(et) ==
    LET s == DivMod(et, 60)
        m == DivMod(s.quot, 60)
        h == DivMod(m.quot, 24)
        yd == year_from_days(ToInt(h.quot, 1))
        md == month_from_days(yd.days, is_leap_year(yd.year))
    IN [ok |-> md.found, year |-> yd.year, month |-> md.month, day |-> md.day,
        hour |-> h.rem, minute |-> m.rem, second |-> s.rem]

\* dos_time as it would be with the seconds stored whole.
dos_time_whole_seconds(dt) ==
    IF dt.year >= 1980
    THEN Or32(Shl32(U32(0, dt.year - 1980), 25),
         Or32(Shl32(U32(0, dt.month), 21),
         Or32(Shl32(U32(0, dt.day), 16),
         Or32(Shl32(U32(0, dt.hour), 11),
         Or32(Shl32(U32(0, dt.minute), 5), U32(0, dt.second))))))
    ELSE U32(0, 0)

\* DateTime::dos_time(&self) -> u32.
dos_time(dt) ==
    IF dt.year >= 1980
    THEN Or32(Shl32(U32(0, dt.year - 1980), 25),
         Or32(Shl32(U32(0, dt.month), 21),
         Or32(Shl32(U32(0, dt.day), 16),
         Or32(Shl32(U32(0, dt.hour), 11),
         Or32(Shl32(U32(0, dt.minute), 5),
              Shr32(U32(0, dt.second), 1))))))
    ELSE U32(0, 0)

\* ------------------------------------------------------------------------
\* src/lib.rs: the data the writer handles
\* ------------------------------------------------------------------------

\* A byte string (a name, a payload, a compressed body) is a record
\* [len, data]: len its length as a usize, data its bytes.  A string too
\* long to enumerate (len differs from Len(data)) stands for some string of
\* that length; data then holds nothing and its checksum is a value of
\* OpaqueChecksums.
Bytes(data) == [len |-> FromInt(Len(data), UsizeLimbs), data |-> data]
Opaque(len) == [len |-> len, data |-> <<>>]
IsLiteral(b) == b.len = FromInt(Len(b.data), UsizeLimbs)

\* The names add_entry is called with: "", "a", and a name of 65536 bytes,
\* one more than a u16 holds.
Names == {Bytes(<<>>), Bytes(<<97>>), Opaque(<<0, 1, 0, 0>>)}

\* The payloads add_entry is called with: "ab", a payload of 2^32 + 2
\* bytes (its length does not fit a u32) and one of 2^32 - 1 bytes (its
\* length fits, the running offset past it does not).
Contents ==
    {Bytes(<<97, 98>>), Opaque(<<2, 0, 1, 0>>), Opaque(<<65535, 65535, 0, 0>>)}

\* What deflate_bytes_conf may return: the compressor is external, and its
\* output is some byte string; here one of 7 bytes.
DeflateOutputs == {Opaque(<<7, 0, 0, 0>>)}

\* The checksum of a string too long to enumerate: some u32.
OpaqueChecksums == {U32(57005, 48879)}

\* The readings of the system clock, in seconds since the epoch:
\* 24786150 (1970-10-14) and 1608905123 (2020-12-25).
Epochs == {<<13542, 378, 0, 0>>, <<61859, 24549, 0, 0>>}

Levels == {"Raw", "Low", "Default", "High"}

\* Level::method(&self) -> u16.
Level_method(level) == IF level = "Raw" THEN 0 ELSE 8

\* Level::compression(&self) -> Option<Compression>.
Level_compression(level) ==
    CASE level = "Raw" -> "None"
      [] level = "Low" -> "Fast"
      [] level = "Default" -> "Default"
      [] level = "High" -> "Best"

\* The hasher of ZipEntry::new run over a payload.
Checksums(content) ==
    IF IsLiteral(content)
    THEN {finish(write(CRC32_default, content.data))}
    ELSE OpaqueChecksums

\* ZipEntry::new(filename, uncompressed_content, compressed_content, method,
\* offset), given the clock's DateTime and the hasher's result.
ZipEntry_new(filename, uncompressed_content, compressed_content, method, offset, dt, checksum) ==
    [method |-> method,
     timestamp |-> dos_time(dt),
     checksum |-> checksum,
     compressed_size |-> AsU32(compressed_content.len),
     uncompressed_size |-> AsU32(uncompressed_content.len),
     offset |-> offset,
     filename |-> filename]

\* ------------------------------------------------------------------------
\* src/lib.rs: the sink
\* ------------------------------------------------------------------------

\* The sink holds the chunks written to it, one per write_all.  A chunk is
\* [rec, field, len, data]: the record and field it is written for, its
\* length as a usize and its bytes.  During one call the sink is
\* [data, left, failed]: left is the number of write_all calls that still
\* succeed before one fails (NoFault: none fails), failed whether one did.
NoFault == 0 - 1

Chunk(rec, field, bytes) ==
    [rec |-> rec, field |-> field,
     len |-> FromInt(Len(bytes), UsizeLimbs), data |-> bytes]
Blob(rec, field, b) ==
    [rec |-> rec, field |-> field, len |-> b.len, data |-> b.data]

Sink(data, left) == [data |-> data, left |-> left, failed |-> FALSE]

\* chunks[1], chunks[2], ... written with `output.write_all(..)?` each: the
\* first failing write ends the run.
write_all(sink, chunks) ==
    IF sink.failed THEN sink
    ELSE IF sink.left = NoFault
    THEN [sink EXCEPT !.data = sink.data \o chunks]
    ELSE IF Len(chunks) <= sink.left
    THEN [sink EXCEPT !.data = sink.data \o chunks,
                      !.left = sink.left - Len(chunks)]
    ELSE [sink EXCEPT !.data = sink.data \o SubSeq(chunks, 1, sink.left),
                      !.left = 0, !.failed = TRUE]

\* The number of bytes in a sequence of chunks, as a usize.
RECURSIVE ByteCount(_, _)
ByteCount(chunks, n) ==
    IF n = 0 THEN FromInt(0, UsizeLimbs)
    ELSE Add(ByteCount(chunks, n - 1), chunks[n].len).sum

\* ------------------------------------------------------------------------
\* src/lib.rs: ZipArchive
\* ------------------------------------------------------------------------

VARIABLES
    state,      \* ZipArchive.state: "Breathe", "Processing" or "Finished"
    output,     \* the chunks written to ZipArchive.output so far
    entries,    \* ZipArchive.entries
    offset,     \* ZipArchive.offset, a u32
    life,       \* "live", "dropped", or "panicked" (a panic unwound the writer)
    result,     \* what the last call returned: "Ok", an Error variant, "panic"
    lastOp,     \* the last call: "new", "add_entry", "flush" or "drop"
    checked,    \* whether the build checks integer overflow (a debug build)
    now,        \* what the system clock reads at the next call, seconds
                \* since the epoch (u64)
    hasher,     \* CRC32.0 of a hasher fed in chunks
    fed,        \* the bytes written to that hasher so far
    digest,     \* what its last finish() returned; <<>> before the first
    date,       \* <<DateTime::from(&EpochTime(now))>> once taken; <<>> before
    stamp       \* what dos_time() returned on that DateTime; <<>> before

vars == <<state, output, entries, offset, life, result, lastOp, checked, now,
          hasher, fed, digest, date, stamp>>
writerVars ==
    <<state, output, entries, offset, life, result, lastOp, checked, now>>
hasherVars == <<hasher, fed, digest>>
converterVars == <<date, stamp>>

\* The fields pk0304 writes before it converts the name's length.
LocalHead(entry) ==
    << Chunk("pk0304", "signature", LeBytes32(U32(1027, 19280))),
       Chunk("pk0304", "version", LeBytes16(20)),
       Chunk("pk0304", "flag", LeBytes16(2048)),
       Chunk("pk0304", "method", LeBytes16(entry.method)),
       Chunk("pk0304", "timestamp", LeBytes32(entry.timestamp)),
       Chunk("pk0304", "checksum", LeBytes32(entry.checksum)),
       Chunk("pk0304", "compressed_size", LeBytes32(entry.compressed_size)),
       Chunk("pk0304", "uncompressed_size", LeBytes32(entry.uncompressed_size)) >>

\* The fields pk0304 writes after it: the name's length as a u16, the
\* extra field's length, the name.
LocalTail(entry) ==
    << Chunk("pk0304", "name_length", LeBytes16(AsU16(entry.filename.len))),
       Chunk("pk0304", "extra_length", LeBytes16(0)),
       Blob("pk0304", "name", entry.filename) >>

\* LocalSize as it would be with the name's length left out.
LocalSize_header_only(entry) == FromInt(30, UsizeLimbs)

\* 30 + entry.filename.len(), a usize.
LocalSize(entry) == Add(FromInt(30, UsizeLimbs), entry.filename.len).sum

\* What pk0304 and pk0102 leave: the sink, what was returned ("Ok",
\* "IoError", "IntError") and, when Ok, the u32 returned.
Returned(sink, res, val) == [sink |-> sink, res |-> res, val |-> val]

\* pk0304 from `Ok(u32::try_from(30 + entry.filename.len())?)` on, s2 the
\* sink after the name's write.
pk0304_return(s2, entry) ==
    IF s2.failed THEN Returned(s2, "IoError", <<>>)
    ELSE IF ~FitsU32(LocalSize(entry)) THEN Returned(s2, "IntError", <<>>)
    ELSE Returned(s2, "Ok", AsU32(LocalSize(entry)))

\* pk0304 from `u16::try_from(entry.filename.len())?` on, s1 the sink after
\* the first eight writes.
pk0304_name(s1, entry) ==
    IF s1.failed THEN Returned(s1, "IoError", <<>>)
    ELSE IF ~FitsU16(entry.filename.len) THEN Returned(s1, "IntError", <<>>)
    ELSE pk0304_return(write_all(s1, LocalTail(entry)), entry)

\* fn pk0304(output, entry) -> Result<u32>.
pk0304(sink, entry) == pk0304_name(write_all(sink, LocalHead(entry)), entry)

\* `self.offset += n`: in a build that checks overflow a sum past u32::MAX
\* panics, in one that does not it wraps.
OffsetSum(r, chk) == [panic |-> r.over /\ chk, val |-> r.sum]
OffsetAdd(off, n, chk) == OffsetSum(Add(off, n), chk)

\* What a call leaves behind: the writer's fields, the sink's chunks and
\* what the call returned ("panic" when it panicked).
Outcome(st, out, ents, off, res) ==
    [state |-> st, output |-> out, entries |-> ents, offset |-> off,
     result |-> res]

\* add_entry from `self.entries.push(entry)` on: s2 the sink after the
\* body's write, o1 the offset past the header, o2 that past the body.
add_entry_push(w, entry, s2, o1, o2) ==
    IF o2.panic
    THEN Outcome("Processing", s2.data, w.entries, o1.val, "panic")
    ELSE Outcome("Breathe", s2.data, Append(w.entries, entry), o2.val, "Ok")

\* add_entry from `self.offset += body.len() as u32` on.
add_entry_written(w, entry, body, o1, s2) ==
    IF s2.failed
    THEN Outcome("Processing", s2.data, w.entries, o1.val, "IoError")
    ELSE add_entry_push(w, entry, s2, o1,
                        OffsetAdd(o1.val, AsU32(body.len), w.checked))

\* add_entry from `self.output.write_all(body)?` on: h what pk0304 left.
add_entry_write(w, entry, body, h, o1) ==
    IF o1.panic
    THEN Outcome("Processing", h.sink.data, w.entries, w.offset, "panic")
    ELSE add_entry_written(w, entry, body, o1,
                           write_all(h.sink, <<Blob("entry", "body", body)>>))

\* add_entry from `self.offset += pk0304(..)?` on.
add_entry_header(w, entry, body, h) ==
    IF h.res # "Ok"
    THEN Outcome("Processing", h.sink.data, w.entries, w.offset, h.res)
    ELSE add_entry_write(w, entry, body, h,
                         OffsetAdd(w.offset, h.val, w.checked))

\* add_entry from `Self::pk0304(self.output, &entry)` on; left is the
\* sink's fault during the call.
add_entry_entry(w, entry, body, left) ==
    add_entry_header(w, entry, body, pk0304(Sink(w.output, left), entry))

\* The body of add_entry past its state check, on the writer's fields w:
\* body is the compressed body (the payload itself for Level::Raw), dt the
\* clock's DateTime (not ok: DateTime::now() panicked), checksum the
\* hasher's result.
add_entry_body(w, name, content, level, body, dt, checksum, left) ==
    IF ~dt.ok
    THEN Outcome("Processing", w.output, w.entries, w.offset, "panic")
    ELSE add_entry_entry(w, ZipEntry_new(name, content, body,
                                         Level_method(level), w.offset, dt,
                                         checksum),
                         body, left)

\* The compressed body add_entry writes: the payload for Level::Raw, and
\* else what the compressor returned.
Bodies(content, level) ==
    IF Level_compression(level) = "None" THEN {content} ELSE DeflateOutputs

\* The fields pk0102 writes before it converts the name's length.
CentralHead(entry) ==
    << Chunk("pk0102", "signature", LeBytes32(U32(513, 19280))),
       Chunk("pk0102", "version_made_by", LeBytes16(20)),
       Chunk("pk0102", "version", LeBytes16(20)),
       Chunk("pk0102", "flag", LeBytes16(2048)),
       Chunk("pk0102", "method", LeBytes16(entry.method)),
       Chunk("pk0102", "timestamp", LeBytes32(entry.timestamp)),
       Chunk("pk0102", "checksum", LeBytes32(entry.checksum)),
       Chunk("pk0102", "compressed_size", LeBytes32(entry.compressed_size)),
       Chunk("pk0102", "uncompressed_size", LeBytes32(entry.uncompressed_size)) >>

\* CentralTail as it would be with the name's length written as a u16.
CentralTail_short_name_length(entry) ==
    << Chunk("pk0102", "name_length", LeBytes16(AsU16(entry.filename.len))),
       Chunk("pk0102", "zero1", LeBytes16(0)),
       Chunk("pk0102", "zero2", LeBytes16(0)),
       Chunk("pk0102", "zero3", LeBytes16(0)),
       Chunk("pk0102", "zero4", LeBytes16(0)),
       Chunk("pk0102", "zero5", LeBytes16(0)),
       Chunk("pk0102", "offset", LeBytes32(entry.offset)),
       Blob("pk0102", "name", entry.filename) >>

\* The fields pk0102 writes after it: the name's length as a u32, five
\* zero u16, the entry's offset, the name.
CentralTail(entry) ==
    << Chunk("pk0102", "name_length", LeBytes32(AsU32(entry.filename.len))),
       Chunk("pk0102", "zero1", LeBytes16(0)),
       Chunk("pk0102", "zero2", LeBytes16(0)),
       Chunk("pk0102", "zero3", LeBytes16(0)),
       Chunk("pk0102", "zero4", LeBytes16(0)),
       Chunk("pk0102", "zero5", LeBytes16(0)),
       Chunk("pk0102", "offset", LeBytes32(entry.offset)),
       Blob("pk0102", "name", entry.filename) >>

\* 46 + entry.filename.len(), a usize.
CentralSize(entry) == Add(FromInt(46, UsizeLimbs), entry.filename.len).sum

\* pk0102 from `Ok(u32::try_from(46 + entry.filename.len())?)` on.
pk0102_return(s2, entry) ==
    IF s2.failed THEN Returned(s2, "IoError", <<>>)
    ELSE IF ~FitsU32(CentralSize(entry)) THEN Returned(s2, "IntError", <<>>)
    ELSE Returned(s2, "Ok", AsU32(CentralSize(entry)))

\* pk0102 from `u32::try_from(entry.filename.len())?` on.
pk0102_name(s1, entry) ==
    IF s1.failed THEN Returned(s1, "IoError", <<>>)
    ELSE IF ~FitsU32(entry.filename.len) THEN Returned(s1, "IntError", <<>>)
    ELSE pk0102_return(write_all(s1, CentralTail(entry)), entry)

\* fn pk0102(output, entry) -> Result<u32>.
pk0102(sink, entry) == pk0102_name(write_all(sink, CentralHead(entry)), entry)

\* FlushOrder as it would be if flush walked the entries last to first.
FlushOrder_reversed(ents) == [i \in 1..Len(ents) |-> ents[Len(ents) + 1 - i]]

\* The order in which flush walks the entries it took: entries.iter().
FlushOrder(ents) == ents

\* What the loop of flush leaves: the sink, the offset, and how it ended
\* ("Ok", an error of pk0102, or "panic").
Looped(sink, off, res) == [sink |-> sink, offset |-> off, res |-> res]

\* The loop of flush from the i-th entry on.
RECURSIVE FlushLoop(_, _, _, _, _)

\* One turn of the loop from `self.offset += ..` on: r what pk0102 left,
\* o the offset past the record.
FlushAdvance(r, o, ents, i, off, chk) ==
    IF o.panic THEN Looped(r.sink, off, "panic")
    ELSE FlushLoop(r.sink, ents, i + 1, o.val, chk)

\* One turn of the loop from the `?` on pk0102's result on.
FlushTurn(r, ents, i, off, chk) ==
    IF r.res # "Ok" THEN Looped(r.sink, off, r.res)
    ELSE FlushAdvance(r, OffsetAdd(off, r.val, chk), ents, i, off, chk)

FlushLoop(sink, ents, i, off, chk) ==
    IF i > Len(ents) THEN Looped(sink, off, "Ok")
    ELSE FlushTurn(pk0102(sink, ents[i]), ents, i, off, chk)

\* EndRecord as it would be without the comment length's write.
EndRecord_no_comment(count, size, top) ==
    << Chunk("pk0506", "signature", LeBytes32(U32(1541, 19280))),
       Chunk("pk0506", "disks", LeBytes32(U32(0, 0))),
       Chunk("pk0506", "entries_on_disk", LeBytes16(count % Limb)),
       Chunk("pk0506", "entries", LeBytes16(count % Limb)),
       Chunk("pk0506", "size", LeBytes32(size)),
       Chunk("pk0506", "top", LeBytes32(top)) >>

\* The end of central directory record flush writes: count entries, the
\* central directory of `size` bytes starting at `top`.
EndRecord(count, size, top) ==
    << Chunk("pk0506", "signature", LeBytes32(U32(1541, 19280))),
       Chunk("pk0506", "disks", LeBytes32(U32(0, 0))),
       Chunk("pk0506", "entries_on_disk", LeBytes16(count % Limb)),
       Chunk("pk0506", "entries", LeBytes16(count % Limb)),
       Chunk("pk0506", "size", LeBytes32(size)),
       Chunk("pk0506", "top", LeBytes32(top)),
       Chunk("pk0506", "comment_length", LeBytes16(0)) >>

\* flush from `self.state = ZipState::Finished` on: s2 the sink after the
\* end record's writes.
flush_finish(s2, off) ==
    IF s2.failed THEN Outcome("Processing", s2.data, <<>>, off, "IoError")
    ELSE Outcome("Finished", s2.data, <<>>, off, "Ok")

\* flush from the end record's writes on: d is self.offset -
\* top_of_central_directory, which panics in a build that checks overflow
\* when it underflows.
flush_end(w, loop, d) ==
    IF d.under /\ w.checked
    THEN Outcome("Processing", loop.sink.data, <<>>, loop.offset, "panic")
    ELSE flush_finish(write_all(loop.sink,
                                EndRecord(Len(w.entries), d.diff, w.offset)),
                      loop.offset)

\* flush_size as it would be if an error of the loop left the writer
\* Breathe.
flush_size_recovering(w, loop) ==
    IF loop.res # "Ok"
    THEN Outcome("Breathe", loop.sink.data, <<>>, loop.offset, loop.res)
    ELSE flush_end(w, loop, Sub(loop.offset, w.offset))

\* flush from `let size_of_the_central_directory = ..` on: loop what the
\* loop left.
flush_size(w, loop) ==
    IF loop.res # "Ok"
    THEN Outcome("Processing", loop.sink.data, <<>>, loop.offset, loop.res)
    ELSE flush_end(w, loop, Sub(loop.offset, w.offset))

\* The body of flush past its state check, on the writer's fields w: the
\* entries are taken out of the writer before the first write, and
\* top_of_central_directory is w.offset.
flush_body(w, left) ==
    flush_size(w, FlushLoop(Sink(w.output, left), FlushOrder(w.entries), 1,
                            w.offset, w.checked))

\* The writer's fields as the bodies above read them.
Writer ==
    [state |-> state, output |-> output, entries |-> entries,
     offset |-> offset, checked |-> checked]

\* A call that fails its state check: it returns the error and changes
\* nothing.
Rejected(w) ==
    Outcome(w.state, w.output, w.entries, w.offset, "AttemptWriteClosedArchive")

\* add_entry as it would be if it turned away a Finished writer only.
add_entry_call_closed_only(w, name, content, level, body, dt, checksum, left) ==
    IF w.state = "Finished" THEN Rejected(w)
    ELSE add_entry_body(w, name, content, level, body, dt, checksum, left)

\* pub fn add_entry(&mut self, name, content, level) -> Result<&mut Self>.
add_entry_call(w, name, content, level, body, dt, checksum, left) ==
    IF w.state # "Breathe" THEN Rejected(w)
    ELSE add_entry_body(w, name, content, level, body, dt, checksum, left)

\* flush as it would be without its state check.
flush_call_unguarded(w, left) == flush_body(w, left)

\* pub fn flush(&mut self) -> Result<()>.
flush_call(w, left) ==
    IF w.state # "Breathe" THEN Rejected(w) ELSE flush_body(w, left)

\* drop as it would be if it let the error of flush go.
drop_call_quiet(w, left) ==
    IF w.state = "Breathe" THEN flush_call(w, left)
    ELSE Outcome(w.state, w.output, w.entries, w.offset, "Ok")

\* Result::unwrap on what flush returned: an error is a panic.
unwrap(r) == IF r.result = "Ok" THEN r ELSE [r EXCEPT !.result = "panic"]

\* fn drop(&mut self): flush().unwrap() when the state is Breathe.
drop_call(w, left) ==
    IF w.state = "Breathe" THEN unwrap(flush_call(w, left))
    ELSE Outcome(w.state, w.output, w.entries, w.offset, "Ok")

\* The writer after a call with outcome r: a panic unwinds it.  The clock
\* is left to the call's action.
Becomes(r, op) ==
    /\ state' = r.state
    /\ output' = r.output
    /\ entries' = r.entries
    /\ offset' = r.offset
    /\ result' = r.result
    /\ lastOp' = op
    /\ life' = IF r.result = "panic" THEN "panicked"
               ELSE IF op = "drop" THEN "dropped" ELSE life
    /\ UNCHANGED checked

\* The faults a sink shows during one add_entry (twelve writes): none, or
\* the failure of the signature's write, of the name length's, of the
\* name's, or of the body's.
AddFaults == {NoFault, 0, 8, 10, 11}

\* The faults a sink shows during one flush (seventeen writes for each
\* entry, then seven): none, or the failure of the first write, of the
\* first record's name length, of the last record's name, or of the end
\* record's signature, size or comment length (with no entry, n - 1 is
\* NoFault).
FlushFaults ==
    LET n == 17 * Len(entries)
    IN {NoFault, 0, 9, n - 1, n, n + 4, n + 6}

\* The arguments of the add_entry calls: every combination for a writer
\* that is Breathe, and one for a writer that is not, which fails its state
\* check before it reads them.
AddNames == IF state = "Breathe" THEN Names ELSE {Bytes(<<>>)}
AddContents == IF state = "Breathe" THEN Contents ELSE {Bytes(<<97, 98>>)}
AddLevels == IF state = "Breathe" THEN Levels ELSE {"Raw"}

\* The levels a payload is added at: every level for a payload short
\* enough to enumerate, and Level::Raw for the others.
LevelsFor(content) == IF IsLiteral(content) THEN AddLevels ELSE {"Raw"}
AddEntryFaults == IF state = "Breathe" THEN AddFaults ELSE {NoFault}
CallFaults == IF state = "Breathe" THEN FlushFaults ELSE {NoFault}

\* What the clock may read at the call after this one.  Only add_entry
\* on a Breathe writer reads the clock (ZipEntry::new calls DateTime::now()
\* each time), so the reading moves while the writer is left Breathe and is
\* kept once no call can read it.
NextReadings(st) == IF st = "Breathe" THEN Epochs ELSE {now}

\* ZipArchive::new(output): Breathe, no entries, offset 0, nothing written.
\* The build is fixed for a behaviour; the clock reads one of Epochs at
\* the first call.
InitWriter ==
    /\ state = "Breathe"
    /\ output = <<>>
    /\ entries = <<>>
    /\ offset = U32(0, 0)
    /\ life = "live"
    /\ result = "Ok"
    /\ lastOp = "new"
    /\ checked \in BOOLEAN
    /\ now \in Epochs

InitHasher ==
    /\ hasher = CRC32_default
    /\ fed = <<>>
    /\ digest = <<>>

InitConverter ==
    /\ date = <<>>
    /\ stamp = <<>>

Init == InitWriter /\ InitHasher /\ InitConverter

add_entry ==
    /\ life = "live"
    /\ state = "Breathe" => Len(entries) < MaxEntries
    /\ \E name \in AddNames, content \in AddContents,
          left \in AddEntryFaults :
         \E level \in LevelsFor(content), checksum \in Checksums(content) :
          \E body \in Bodies(content, level) :
            Becomes(add_entry_call(Writer, name, content, level, body,
                                   DateTime_from(now), checksum, left),
                    "add_entry")
    /\ now' \in NextReadings(state')
    /\ UNCHANGED <<hasherVars, converterVars>>

flush ==
    /\ life = "live"
    /\ \E left \in CallFaults : Becomes(flush_call(Writer, left), "flush")
    /\ UNCHANGED <<now, hasherVars, converterVars>>

drop ==
    /\ life = "live"
    /\ \E left \in CallFaults : Becomes(drop_call(Writer, left), "drop")
    /\ UNCHANGED <<now, hasherVars, converterVars>>

Next == add_entry \/ flush \/ drop

Spec == Init /\ [][Next]_vars

\* ------------------------------------------------------------------------
\* A CRC32 hasher fed in chunks (src/crc32.rs)
\* ------------------------------------------------------------------------

\* The bytes the hasher is fed, and the chunks one write takes.
HasherBytes == {0, 97, 255}
HasherChunks == UNION {[1..n -> HasherBytes] : n \in 0..MaxChunk}

\* The strings test::it_works feeds a fresh hasher in one write: "abcd"
\* and "123456789".
HasherVectors ==
    {<<97, 98, 99, 100>>, <<49, 50, 51, 52, 53, 54, 55, 56, 57>>}

\* What one write may take: a chunk that keeps the total within MaxFed, or,
\* on a fresh hasher, one of the test's strings whole.
HasherWrites ==
    {chunk \in HasherChunks : Len(fed) + Len(chunk) <= MaxFed}
        \cup (IF fed = <<>> THEN HasherVectors ELSE {})

\* hasher.write(chunk).
hasher_write ==
    /\ \E chunk \in HasherWrites :
         /\ hasher' = write(hasher, chunk)
         /\ fed' = fed \o chunk
    /\ digest' = <<>>
    /\ UNCHANGED <<writerVars, converterVars>>

\* hasher.finish(): takes &self, so the accumulator stays.
hasher_finish ==
    /\ digest' = finish(hasher)
    /\ UNCHANGED <<hasher, fed>>
    /\ UNCHANGED <<writerVars, converterVars>>

NextCrc == hasher_write \/ hasher_finish

\* A fresh hasher beside a writer nothing is done with.
InitCrc ==
    /\ InitWriter
    /\ checked = FALSE
    /\ now = <<13542, 378, 0, 0>>
    /\ InitHasher
    /\ InitConverter

SpecCrc == InitCrc /\ [][NextCrc]_vars

\* ------------------------------------------------------------------------
\* The calendar converter on its own (src/time.rs)
\* ------------------------------------------------------------------------

\* The epochs of test::it_works: 24786150, 316116310, 886273502, 952837441
\* and 1608905123.
TestEpochs ==
    {<<13542, 378, 0, 0>>, <<36182, 4823, 0, 0>>, <<30174, 13523, 0, 0>>,
     <<9537, 14539, 0, 0>>, <<61859, 24549, 0, 0>>}

\* The seconds into a day at which the clock is read: its first and its
\* last.
TimesOfDay == {0, 86399}

\* Days past MaxDay whose readings are converted too: one in 2108, one in
\* 2134, years that are 128 or more past 1980.
LateDays == {50500, 60000}

\* The clock's reading t seconds into day number day.
Reading(day, t) ==
    Add(Mul(Mul(FromInt(day, UsizeLimbs), 3600), 24),
        FromInt(t, UsizeLimbs)).sum

\* The readings EpochTime::new may hold.
ClockReadings ==
    {Reading(day, t) : day \in (0..MaxDay) \cup LateDays, t \in TimesOfDay}
        \cup TestEpochs

\* DateTime::from(&EpochTime(now)), as DateTime::now() takes it.
from_epoch_time ==
    /\ date = <<>>
    /\ date' = <<DateTime_from(now)>>
    /\ UNCHANGED <<stamp, writerVars, hasherVars>>

\* dos_time() on the DateTime taken; there is none if from() panicked.
to_dos_time ==
    /\ date # <<>>
    /\ date[1].ok
    /\ stamp = <<>>
    /\ stamp' = dos_time(date[1])
    /\ UNCHANGED <<date, writerVars, hasherVars>>

NextTime == from_epoch_time \/ to_dos_time

\* A clock reading beside a writer and a hasher nothing is done with.
InitTime ==
    /\ state = "Breathe"
    /\ output = <<>>
    /\ entries = <<>>
    /\ offset = U32(0, 0)
    /\ life = "live"
    /\ result = "Ok"
    /\ lastOp = "new"
    /\ checked = FALSE
    /\ now \in ClockReadings
    /\ InitHasher
    /\ InitConverter

SpecTime == InitTime /\ [][NextTime]_vars

\* ------------------------------------------------------------------------
\* Reading the sink back
\* ------------------------------------------------------------------------

\* The chunks of out written for one field of one kind of record, in order.
Select(out, rec, field) ==
    LET Is(c) == c.rec = rec /\ c.field = field
    IN SelectSeq(out, Is)

\* The bytes of a sequence of chunks, one after the other.
RECURSIVE Flatten(_, _)
Flatten(chunks, n) ==
    IF n = 0 THEN <<>> ELSE Flatten(chunks, n - 1) \o chunks[n].data

\* The byte positions, as usize, at which the chunks of one field of one
\* kind of record begin in out[1..n].
RECURSIVE Starts(_, _, _, _)
Starts(out, n, rec, field) ==
    IF n = 0 THEN <<>>
    ELSE IF out[n].rec = rec /\ out[n].field = field
         THEN Append(Starts(out, n - 1, rec, field), ByteCount(out, n - 1))
         ELSE Starts(out, n - 1, rec, field)

\* What the step wrote: the sink's chunks past those it held before.
Written == SubSeq(output', Len(output) + 1, Len(output'))

\* The sum over ents[1..n] of 46 + name length, as a usize.
RECURSIVE CentralBytes(_, _)
CentralBytes(names, n) ==
    IF n = 0 THEN FromInt(0, UsizeLimbs)
    ELSE Add(CentralBytes(names, n - 1),
             Add(FromInt(46, UsizeLimbs), names[n].len).sum).sum

\* ------------------------------------------------------------------------
\* Claims
\* ------------------------------------------------------------------------

\* The archive is complete: flush (or the flush of drop) succeeded, which
\* it does only after add_entry calls that all succeeded.
Complete == state = "Finished"

\* C1: after successful add_entry calls and a successful flush, the offset
\* field of every central directory record equals the byte position in the
\* sink at which that entry's local file header begins.
C1_OffsetsArePositions ==
    Complete =>
        LET pos == Starts(output, Len(output), "pk0304", "signature")
            off == Select(output, "pk0102", "offset")
        IN /\ Len(off) = Len(pos)
           /\ \A i \in 1..Len(pos) :
                /\ FitsU32(pos[i])
                /\ off[i].data = LeBytes32(AsU32(pos[i]))

\* The fields a central directory record shares with the local header.
SharedFields ==
    {"name", "method", "timestamp", "checksum", "compressed_size",
     "uncompressed_size"}

\* C2: after successful add_entry calls and a successful flush, the central
\* directory holds one record per added entry, in the order of the local
\* headers, and each carries the name, method, timestamp, checksum,
\* compressed size and uncompressed size of that entry's local header.
C2_CentralMatchesLocal ==
    Complete =>
        /\ Len(Select(output, "pk0102", "signature"))
             = Len(Select(output, "entry", "body"))
        /\ \A f \in SharedFields :
             LET loc == Select(output, "pk0304", f)
                 cen == Select(output, "pk0102", f)
             IN /\ Len(cen) = Len(loc)
                /\ Len(cen) = Len(Select(output, "pk0102", "signature"))
                /\ \A i \in 1..Len(loc) :
                     /\ cen[i].data = loc[i].data
                     /\ cen[i].len = loc[i].len

\* Two entries that differ in name and in method were added and the archive
\* is complete.
C2_Witness ==
    /\ Complete
    /\ LET n == Select(output, "pk0102", "name")
           m == Select(output, "pk0102", "method")
       IN Len(n) = 2 /\ n[1] # n[2] /\ m[1] # m[2]

\* C3: an add_entry or flush call on a writer that is not Breathe returns
\* AttemptWriteClosedArchive and writes nothing to the sink.
C3_RejectedWhenNotIdle ==
    [][(lastOp' \in {"add_entry", "flush"} /\ state # "Breathe")
         => (result' = "AttemptWriteClosedArchive" /\ output' = output
             /\ state' = state)]_vars

\* add_entry was called on a writer that is Finished.
C3_Witness ==
    /\ state = "Finished"
    /\ lastOp = "add_entry"
    /\ result = "AttemptWriteClosedArchive"

\* The end of central directory records begun in the sink.
EndRecords(out) == Len(Select(out, "pk0506", "signature"))

\* C4: flush succeeds at most once: a flush on a Finished writer returns
\* AttemptWriteClosedArchive and writes nothing, a drop of a Finished writer
\* writes nothing, a flush that succeeds finds no end record in the sink,
\* and the sink never holds more than one end record.
C4_FlushAtMostOnce ==
    [][/\ (lastOp' = "flush" /\ state = "Finished")
            => (result' = "AttemptWriteClosedArchive" /\ output' = output)
       /\ (lastOp' = "drop" /\ state = "Finished") => output' = output
       /\ (lastOp' = "flush" /\ result' = "Ok") => EndRecords(output) = 0
       /\ EndRecords(output') <= 1]_vars

\* flush was called a second time, after entries were added and flushed.
C4_Witness ==
    /\ state = "Finished"
    /\ lastOp = "flush"
    /\ result = "AttemptWriteClosedArchive"
    /\ Len(Select(output, "pk0102", "signature")) > 0

\* The central directory of ents and the end record, whole, are what the
\* step wrote.
WroteEnding(ents) ==
    /\ Len(Written) = 17 * Len(ents) + 7
    /\ Len(Select(Written, "pk0102", "name")) = Len(ents)
    /\ Written[Len(Written)].rec = "pk0506"
    /\ Written[Len(Written)].field = "comment_length"

\* C5: the drop of a writer that is Breathe either writes the whole central
\* directory and end record and leaves the writer Finished, or panics; it
\* never ends quietly with the ending cut short.
C5_DropFinalizesOrPanics ==
    [][(lastOp' = "drop" /\ state = "Breathe")
         => \/ life' = "dropped" /\ state' = "Finished" /\ WroteEnding(entries)
            \/ life' = "panicked" /\ result' = "panic"
                 /\ ~WroteEnding(entries)]_vars

\* A drop whose flush failed part way through the central directory.
C5_Witness ==
    /\ lastOp = "drop"
    /\ life = "panicked"
    /\ output # <<>>
    /\ output[Len(output)].rec = "pk0102"

\* C6: when add_entry returns IoError no entry is appended, and the offset
\* is its value before the call when the header's write failed, and that
\* value plus 30 + name length, without the body's length, when the body's
\* write failed.
C6_IoErrorKeepsOffset ==
    [][(lastOp' = "add_entry" /\ result' = "IoError")
         => /\ entries' = entries
            /\ state' = "Processing"
            /\ LET name == Select(Written, "pk0304", "name")
               IN IF name = <<>>
                  THEN offset' = offset
                  ELSE offset' =
                         Add(offset,
                             AsU32(Add(FromInt(30, UsizeLimbs),
                                       name[1].len).sum)).sum]_vars

\* An add_entry whose body's write failed after a header with a name of
\* one byte.
C6_Witness ==
    /\ lastOp = "add_entry"
    /\ result = "IoError"
    /\ output # <<>>
    /\ output[Len(output)].field = "name"
    /\ output[Len(output)].len = FromInt(1, UsizeLimbs)
    /\ offset # U32(0, 0)

\* C7: no length is truncated or wrapped into a header field or into the
\* offset: every body in the sink has a length that fits a u32 and that its
\* header's compressed size field holds, every name a length that fits a
\* u16, and the offset of a Breathe writer is the number of bytes written.
C7_NoSilentTruncation ==
    LET body == Select(output, "entry", "body")
        size == Select(output, "pk0304", "compressed_size")
        name == Select(output, "pk0304", "name")
    IN /\ \A i \in 1..Len(body) :
            /\ FitsU32(body[i].len)
            /\ size[i].data = LeBytes32(AsU32(body[i].len))
       /\ \A i \in 1..Len(name) : FitsU16(name[i].len)
       /\ state = "Breathe" => Widen(offset) = ByteCount(output, Len(output))

\* The bytes written to the sink before the first central directory
\* record, or before the end record when there is none.
BytesBeforeCentral(out) ==
    Starts(out, Len(out), "pk0506", "signature")[1]

BeforeCentralIsLocal(out) ==
    LET c == Starts(out, Len(out), "pk0102", "signature")
    IN IF c = <<>> THEN BytesBeforeCentral(out) ELSE c[1]

\* C8: the end of central directory record of a successful flush is 22
\* bytes, both its entry counts are the number of entries added, its size
\* field is the sum of 46 + name length over the entries, and its offset
\* field is the number of bytes written before the central directory.
C8_EndRecordExact ==
    Complete =>
        LET n == Len(Select(output, "entry", "body"))
            names == Select(output, "pk0304", "name")
            one(f) == Select(output, "pk0506", f)[1].data
            top == BeforeCentralIsLocal(output)
            size == CentralBytes(names, Len(names))
        IN /\ Len(Flatten(Select(output, "pk0506", "signature"), 1)
                  \o one("disks") \o one("entries_on_disk") \o one("entries")
                  \o one("size") \o one("top") \o one("comment_length")) = 22
           /\ one("entries_on_disk") = LeBytes16(n)
           /\ one("entries") = LeBytes16(n)
           /\ FitsU32(size) /\ one("size") = LeBytes32(AsU32(size))
           /\ FitsU32(top) /\ one("top") = LeBytes32(AsU32(top))

\* The 22 bytes of the end record of an empty archive: the signature
\* 50 4B 05 06 and zeros.
EmptyArchive ==
    <<80, 75, 5, 6>> \o [i \in 1..18 |-> 0]

\* C9: a flush or drop of a writer to which no entry was added either
\* fails on the sink or leaves the writer Finished with the sink holding
\* the 22 bytes of the empty archive's end record and nothing else.
C9_EmptyArchive ==
    [][(lastOp' \in {"flush", "drop"} /\ state = "Breathe" /\ output = <<>>)
         => \/ /\ result' = "Ok"
               /\ state' = "Finished"
               /\ Flatten(output', Len(output')) = EmptyArchive
               /\ Select(output', "pk0102", "signature") = <<>>
            \/ /\ result' \in {"IoError", "panic"}
               /\ state' = "Processing"
               /\ Len(output') < 7]_vars

\* A writer dropped with nothing added, the end record written.
C9_Witness ==
    /\ lastOp = "drop"
    /\ life = "dropped"
    /\ state = "Finished"
    /\ Len(output) = 7

\* C10: a hasher fed a byte string in chunks, with finish() called at any
\* point between them, holds what one write of the whole string leaves, so
\* its finish() is that of the single write; and what finish() returned
\* since the last write is that value too.
C10_ChunkedWrites ==
    /\ finish(hasher) = finish(write(CRC32_default, fed))
    /\ digest # <<>> => digest = finish(write(CRC32_default, fed))

\* Four bytes were fed in more than one chunk and finish() was called.
C10_Witness ==
    /\ Len(fed) = MaxFed
    /\ fed[1] # fed[2]
    /\ digest # <<>>

\* The reference CRC-32, bit by bit and without a table: the register
\* starts all-ones; each byte is xored into its low end and the register
\* is then shifted right eight times, 0xEDB88320 xored in whenever the bit
\* shifted out is 1; the result is the register's complement.
RECURSIVE ReferenceShift(_, _)
ReferenceShift(reg, k) ==
    IF k = 0 THEN reg
    ELSE IF reg[1] % 2 = 1
         THEN ReferenceShift(Xor32(Shr32(reg, 1), U32(60856, 33568)), k - 1)
         ELSE ReferenceShift(Shr32(reg, 1), k - 1)

\* The register after the first n bytes.
RECURSIVE ReferenceRegister(_, _)
ReferenceRegister(bytes, n) ==
    IF n = 0 THEN U32(65535, 65535)
    ELSE ReferenceShift(Xor32(ReferenceRegister(bytes, n - 1),
                              U32(0, bytes[n])), 8)

ReferenceCrc32(bytes) ==
    Xor32(ReferenceRegister(bytes, Len(bytes)), U32(65535, 65535))

\* C11: default(), write(s), finish() is the reference bitwise reflected
\* CRC-32 of s (polynomial 0xEDB88320, seed all-ones, final complement):
\* the hasher's finish() is the reference value of all it was fed, and so
\* is what finish() returned; "abcd" gives 0xED82CD11, "123456789" gives
\* 0xCBF43926 and the empty string gives 0.
C11_MatchesReference ==
    /\ finish(hasher) = ReferenceCrc32(fed)
    /\ digest # <<>> => digest = ReferenceCrc32(fed)
    /\ (digest # <<>> /\ fed = <<97, 98, 99, 100>>)
          => digest = U32(60802, 52497)
    /\ (digest # <<>> /\ fed = <<49, 50, 51, 52, 53, 54, 55, 56, 57>>)
          => digest = U32(52212, 14630)
    /\ (digest # <<>> /\ fed = <<>>) => digest = U32(0, 0)

\* finish() was called on a hasher fed "123456789".
C11_Witness ==
    /\ fed = <<49, 50, 51, 52, 53, 54, 55, 56, 57>>
    /\ digest = U32(52212, 14630)

\* The day number of a clock reading, and the seconds into its hour.
DayOf(et) == ToInt(DivMod(DivMod(et, 3600).quot, 24).quot, 1)
HourOf(et) == DivMod(DivMod(et, 3600).quot, 24).rem
SecondsIntoHour(et) == DivMod(et, 3600).rem

\* The reference conversion of a day number (days since 1970-01-01) to the
\* proleptic Gregorian civil date, by eras of 400 years that begin on
\* 1 March.
CivilYearOfEra(doe) ==
    (doe - doe \div 1460 + doe \div 36524 - doe \div 146096) \div 365
CivilDayOfYear(doe, yoe) ==
    doe - (365 * yoe + yoe \div 4 - yoe \div 100)
CivilDate(era, yoe, doy, mp) ==
    [year |-> yoe + era * 400 + (IF mp < 10 THEN 0 ELSE 1),
     month |-> IF mp < 10 THEN mp + 3 ELSE mp - 9,
     day |-> doy - (153 * mp + 2) \div 5 + 1]
CivilOfEra(era, doe, yoe) ==
    CivilDate(era, yoe, CivilDayOfYear(doe, yoe),
              (5 * CivilDayOfYear(doe, yoe) + 2) \div 153)
CivilFromDays(days) ==
    CivilOfEra((days + 719468) \div 146097, (days + 719468) % 146097,
               CivilYearOfEra((days + 719468) % 146097))

\* The reference conversion of a clock reading.
CivilDateTime(et) ==
    [ok |-> TRUE,
     year |-> CivilFromDays(DayOf(et)).year,
     month |-> CivilFromDays(DayOf(et)).month,
     day |-> CivilFromDays(DayOf(et)).day,
     hour |-> HourOf(et),
     minute |-> SecondsIntoHour(et) \div 60,
     second |-> SecondsIntoHour(et) % 60]

\* C12: DateTime::from(&EpochTime) returns the proleptic Gregorian UTC
\* year, month, day, hour, minute and second of the instant: the DateTime
\* taken from a clock reading is the reference conversion of that reading.
C12_AgreesWithCivil ==
    date # <<>> => date[1] = CivilDateTime(now)

\* A DateTime that from() returned.
DateTime(year, month, day, hour, minute, second) ==
    [ok |-> TRUE, year |-> year, month |-> month, day |-> day,
     hour |-> hour, minute |-> minute, second |-> second]

\* The clock read et converts to dt, and dt packs to dos.
Converts(et, dt, dos) ==
    now = et => /\ date # <<>> => date[1] = dt
                /\ stamp # <<>> => stamp = dos

\* C13: the five documented vectors hold: 24786150 converts to
\* 1970-10-14 21:02:30 with DOS timestamp 0, 316116310 to
\* 1980-01-07 18:05:10 with 2592933, 886273502 to 1998-02-01 19:05:02 with
\* 608278689, 952837441 to 2000-03-12 05:04:01 with 678176896, and
\* 1608905123 to 2020-12-25 14:05:23 with 1369010347.
C13_DocumentedVectors ==
    /\ Converts(<<13542, 378, 0, 0>>,
                DateTime(1970, 10, 14, 21, 2, 30), U32(0, 0))
    /\ Converts(<<36182, 4823, 0, 0>>,
                DateTime(1980, 1, 7, 18, 5, 10), U32(39, 37029))
    /\ Converts(<<30174, 13523, 0, 0>>,
                DateTime(1998, 2, 1, 19, 5, 2), U32(9281, 39073))
    /\ Converts(<<9537, 14539, 0, 0>>,
                DateTime(2000, 3, 12, 5, 4, 1), U32(10348, 10368))
    /\ Converts(<<61859, 24549, 0, 0>>,
                DateTime(2020, 12, 25, 14, 5, 23), U32(20889, 28843))

\* The reading 1608905123 was converted and packed.
C13_Witness ==
    /\ now = <<61859, 24549, 0, 0>>
    /\ date = <<DateTime(2020, 12, 25, 14, 5, 23)>>
    /\ stamp = U32(20889, 28843)

\* The Gregorian leap rule and the length of a month.
LeapYear(year) ==
    year % 4 = 0 /\ (year % 100 # 0 \/ year % 400 = 0)
MonthLength(year, month) ==
    IF month = 2 THEN (IF LeapYear(year) THEN 29 ELSE 28)
    ELSE IF month \in {4, 6, 9, 11} THEN 30 ELSE 31

\* C14: DateTime::from(&EpochTime) is total and yields a well-formed
\* date: it returns without panicking, with month in 1..12, day between 1
\* and the length of that month in that year, hour in 0..23, minute in
\* 0..59 and second in 0..59.
C14_WellFormedDate ==
    date # <<>> =>
        /\ date[1].ok
        /\ date[1].month \in 1..12
        /\ date[1].day \in 1..MonthLength(date[1].year, date[1].month)
        /\ date[1].hour \in 0..23
        /\ date[1].minute \in 0..59
        /\ date[1].second \in 0..59

\* The 32-bit value ((year - 1980) << 25) | (month << 21) | (day << 16)
\* | (hour << 11) | (minute << 5) | (second >> 1) of a DateTime whose
\* month is below 16, day and hour below 32, minute and second below 64:
\* the fields do not overlap, so the value is their sum, its high half
\* holding the low seven bits of year - 1980, the month and the day.
PackedValue(dt) ==
    U32(((dt.year - 1980) % 128) * 512 + dt.month * 32 + dt.day,
        dt.hour * 2048 + dt.minute * 32 + dt.second \div 2)

\* C15: dos_time returns 0 for a DateTime with year < 1980, and otherwise
\* the 32-bit value ((year-1980)<<25) | (month<<21) | (day<<16)
\* | (hour<<11) | (minute<<5) | (second>>1), the bits shifted past bit 31
\* dropped.
C15_DosTimePacking ==
    stamp # <<>> =>
        stamp = IF date[1].year < 1980 THEN U32(0, 0)
                ELSE PackedValue(date[1])

\* A DateTime of the year 2134, 154 years past 1980, was packed: the year
\* field holds 154 - 128.
C15_Witness ==
    /\ stamp # <<>>
    /\ date[1].year = 2134
    /\ stamp[2] \div 512 = 26

\* The year year_from_days computes for a clock reading.
ComputedYear(et) == year_from_days(DayOf(et)).year

\* C16: the conversion of the day of the year to month and day walks the
\* leap table (February = 29) exactly when the computed year is a leap
\* year, and the common table (February = 28) for every other year.
C16_LeapTableForLeapYears ==
    date # <<>> =>
        MonthTable(is_leap_year(ComputedYear(now))) =
            IF LeapYear(ComputedYear(now))
            THEN <<31, 29, 31, 30, 31, 30, 31, 31, 30, 31, 30, 31>>
            ELSE <<31, 28, 31, 30, 31, 30, 31, 31, 30, 31, 30, 31>>

\* The year, month and day that follow from one branch's result.
CalendarDay(yd) ==
    <<yd.year,
      month_from_days(yd.days, is_leap_year(yd.year)).month,
      month_from_days(yd.days, is_leap_year(yd.year)).day>>

\* C17: the two branches of year_from_days agree at their boundary: on
\* the day counts 10957 and 10958 both branch formulas yield the same
\* year, month and day, and the two days convert to the consecutive dates
\* 2000-01-01 and 2000-01-02.
C17_BranchesAgree ==
    (date # <<>> /\ DayOf(now) \in {10957, 10958}) =>
        /\ CalendarDay(YearSince2000(DayOf(now)))
             = CalendarDay(YearSince1960(DayOf(now)))
        /\ <<date[1].year, date[1].month, date[1].day>>
             = <<2000, 1, DayOf(now) - 10956>>

\* The field widths of a local file header before the name.
LocalWidths == <<4, 2, 2, 2, 4, 4, 4, 4, 2, 2>>

\* 30 + name length + body length of the one entry a step wrote, a usize.
EntryBytes(written) ==
    Add(Add(FromInt(30, UsizeLimbs),
            Select(written, "pk0304", "name")[1].len).sum,
        Select(written, "entry", "body")[1].len).sum

\* C18: whenever the writer is Breathe the offset is the number of bytes
\* written to the sink so far: a successful add_entry writes ten header
\* fields of 4+2+2+2+4+4+4+4+2+2 bytes, the name and the body, 30 + name
\* length + body length bytes in all, and advances the offset by that
\* amount.
C18_OffsetIsBytesWritten ==
    [][/\ (lastOp' = "add_entry" /\ result' = "Ok") =>
            /\ Len(Written) = 12
            /\ \A i \in 1..10 :
                 Written[i].len = FromInt(LocalWidths[i], UsizeLimbs)
            /\ ByteCount(Written, Len(Written)) = EntryBytes(Written)
            /\ Widen(offset') = Add(Widen(offset), EntryBytes(Written)).sum
       /\ state' = "Breathe" =>
            Widen(offset') = ByteCount(output', Len(output'))]_vars

\* The chunks of out that belong to one kind of record, in order.
OfRecord(out, rec) ==
    LET Is(c) == c.rec = rec
    IN SelectSeq(out, Is)

\* The seventeen chunks of the i-th central directory record in out.
CentralRecord(out, i) ==
    SubSeq(OfRecord(out, "pk0102"), 17 * (i - 1) + 1, 17 * i)

\* The central directory file header of the ZIP format for an entry:
\* signature 50 4B 01 02, version made by 20, version needed 20, flag,
\* method, timestamp, checksum, compressed and uncompressed size, name
\* length and extra field length as 16 bits each, comment length, disk
\* number and internal attributes zero, external attributes 32 bits zero,
\* the offset of the local header, the name.
StandardCentral(e) ==
    <<80, 75, 1, 2>> \o <<20, 0>> \o <<20, 0>> \o LeBytes16(2048)
        \o LeBytes16(e.method) \o LeBytes32(e.timestamp)
        \o LeBytes32(e.checksum) \o LeBytes32(e.compressed_size)
        \o LeBytes32(e.uncompressed_size)
        \o LeBytes16(Len(e.filename.data)) \o <<0, 0>>
        \o <<0, 0>> \o <<0, 0>> \o <<0, 0>> \o <<0, 0, 0, 0>>
        \o LeBytes32(e.offset) \o e.filename.data

\* C19: for every entry add_entry accepted, the central directory record
\* a successful flush writes is 46 + name length bytes and is byte for
\* byte the standard layout, what pk0102 returns for it is the number of
\* bytes it wrote, and flush advances the offset by the bytes of the
\* records.
C19_CentralRecordLayout ==
    [][(lastOp' \in {"flush", "drop"} /\ state = "Breathe" /\ result' = "Ok")
         => /\ Len(OfRecord(Written, "pk0102")) = 17 * Len(entries)
            /\ \A i \in 1..Len(entries) :
                 /\ Flatten(CentralRecord(Written, i), 17)
                      = StandardCentral(entries[i])
                 /\ Len(Flatten(CentralRecord(Written, i), 17))
                      = 46 + Len(entries[i].filename.data)
                 /\ Widen(pk0102(Sink(<<>>, NoFault), entries[i]).val)
                      = ByteCount(CentralRecord(Written, i), 17)
            /\ offset' =
                 AsU32(Add(Widen(offset),
                           ByteCount(OfRecord(Written, "pk0102"),
                                     17 * Len(entries))).sum)]_vars

\* A flush wrote the records of two entries, the second named "a".
C19_Witness ==
    /\ state = "Finished"
    /\ lastOp = "flush"
    /\ result = "Ok"
    /\ Len(OfRecord(output, "pk0102")) = 34
    /\ Len(Flatten(CentralRecord(output, 2), 17)) = 47

\* C20: once add_entry or flush has returned IoError or IntError the
\* writer is Processing and stays so: every later add_entry or flush
\* returns AttemptWriteClosedArchive and writes nothing, and drop writes
\* nothing, so no end record is written after the failure.
C20_FailureIsFinal ==
    [][/\ result' \in {"IoError", "IntError"} => state' = "Processing"
       /\ state = "Processing" =>
            /\ state' = "Processing"
            /\ output' = output
            /\ EndRecords(output') = EndRecords(output)
            /\ lastOp' \in {"add_entry", "flush"}
                 => result' = "AttemptWriteClosedArchive"
            /\ lastOp' = "drop" => result' = "Ok"]_vars

\* A writer whose flush failed part way through the central directory was
\* dropped: the sink ends where the failure left it.
C20_Witness ==
    /\ state = "Processing"
    /\ lastOp = "drop"
    /\ life = "dropped"
    /\ output # <<>>
    /\ output[Len(output)].rec = "pk0102"

====
